---------------------------- MODULE Spec2Model ----------------------------
(***************************************************************************)
(* Model of the pdf-ocr batch scripts: the retry loop around the Gemini    *)
(* File API (gemini-pdf_genai.py), the single-shot extractors of the       *)
(* vertex and ocr variants, and the per-document batch drivers that write  *)
(* rows to the worksheet and failures to the error log; the docs variant   *)
(* (gemini-pdf-ocr-docs.py), which writes each file's text to a Google     *)
(* document, has a specification of its own, DocsSpec.                     *)
(*                                                                         *)
(* A response text is a sequence of tokens:                                *)
(*   "[" "]" "{" "}" ","  the JSON punctuation characters                  *)
(*   "m" "b" "d" "f" "h"  one complete  "key": value  member each          *)
(*   "K"                  a key and its colon; the value follows           *)
(*   "n"                  a JSON number                                    *)
(*   "p"                  a word of prose (not JSON)                       *)
(*   "F"                  a ``` code fence                                 *)
(*   "j"                  the word json directly after a fence             *)
(* A string value is the sequence of its characters, "LF" and "CR" being   *)
(* the line feed and the carriage return.                                  *)
(***************************************************************************)
EXTENDS Integers, Sequences, FiniteSets, TLC

\* ------------------------------------------------------------------------
\* Bounds of the model
\* ------------------------------------------------------------------------
MaxDocs == 3
MaxElems == 2       \* elements of an array of a nested JSON value
MaxRecords == 3     \* elements of the array of records of a response
MaxTextLen == 3     \* tokens of a response drawn without regard to JSON
MaxChars == 3       \* characters of a string passed to clean_currency

\* ------------------------------------------------------------------------
\* Program constants
\* ------------------------------------------------------------------------
max_retries == 3

None == [t |-> "none", items |-> <<>>]

\* ------------------------------------------------------------------------
\* Values: t is the Python type, s the characters of a string or of a
\* number's decimal form, items the elements of a list or the members
\* [key, value] of a dict
\* ------------------------------------------------------------------------
Str(chars) == [t |-> "str", s |-> chars]
Num(chars) == [t |-> "num", s |-> chars]

\* The schema, three of its fields standing for all: a singleton text field
\* (성명), a singleton currency field (원천징수세액) and a row-level text field
\* (경비율).
EXTRACTION_FIELDS == <<"name", "tax", "rate">>
currency_fields == {"tax"}

\* The members a response is written with.
MemberTokens == {"m", "b", "d", "f", "h"}
Member(tok) ==
    CASE tok = "m" -> [key |-> "name", value |-> Str(<<"X">>)]
      [] tok = "b" -> [key |-> "name", value |-> Str(<<"X", "CR", "LF", "Y">>)]
      [] tok = "d" -> [key |-> "tax", value |-> Str(<<"1", ",", "0", "0", "0">>)]
      [] tok = "f" -> [key |-> "tax", value |-> Num(<<"7", "0">>)]
      [] tok = "h" -> [key |-> "rate", value |-> Str(<<>>)]

\* ------------------------------------------------------------------------
\* json.loads on a token sequence
\* ------------------------------------------------------------------------
JsonFail == [ok |-> FALSE, v |-> None, nxt |-> 0]

RECURSIVE ParseValue(_, _)
RECURSIVE ParseElems(_, _, _)
RECURSIVE ParseMembers(_, _, _)

ParseElems(toks, i, acc) ==
    LET r == ParseValue(toks, i) IN
    IF ~r.ok \/ r.nxt > Len(toks) THEN JsonFail
    ELSE IF toks[r.nxt] = "," THEN ParseElems(toks, r.nxt + 1, Append(acc, r.v))
    ELSE IF toks[r.nxt] = "]"
         THEN [ok |-> TRUE, v |-> [t |-> "list", items |-> Append(acc, r.v)],
               nxt |-> r.nxt + 1]
    ELSE JsonFail

ParseMembers(toks, i, acc) ==
    IF i > Len(toks) THEN JsonFail
    ELSE LET r == IF toks[i] = "K" THEN ParseValue(toks, i + 1) ELSE JsonFail
             ok == toks[i] \in MemberTokens \/ r.ok
             kv == IF toks[i] \in MemberTokens THEN Member(toks[i])
                   ELSE [key |-> "k", value |-> r.v]
             nxt == IF toks[i] \in MemberTokens THEN i + 1 ELSE r.nxt
         IN  IF ~ok \/ nxt > Len(toks) THEN JsonFail
             ELSE IF toks[nxt] = "," THEN ParseMembers(toks, nxt + 1, Append(acc, kv))
             ELSE IF toks[nxt] = "}"
                  THEN [ok |-> TRUE, v |-> [t |-> "dict", items |-> Append(acc, kv)],
                        nxt |-> nxt + 1]
             ELSE JsonFail

ParseValue(toks, i) ==
    IF i > Len(toks) THEN JsonFail
    ELSE IF toks[i] = "n"
         THEN [ok |-> TRUE, v |-> Num(<<"7">>), nxt |-> i + 1]
    ELSE IF toks[i] = "["
         THEN IF i + 1 <= Len(toks) /\ toks[i + 1] = "]"
              THEN [ok |-> TRUE, v |-> [t |-> "list", items |-> <<>>], nxt |-> i + 2]
              ELSE ParseElems(toks, i + 1, <<>>)
    ELSE IF toks[i] = "{"
         THEN IF i + 1 <= Len(toks) /\ toks[i + 1] = "}"
              THEN [ok |-> TRUE, v |-> [t |-> "dict", items |-> <<>>], nxt |-> i + 2]
              ELSE ParseMembers(toks, i + 1, <<>>)
    ELSE JsonFail

\* json.loads(s): the whole of s is one JSON value, else JSONDecodeError.
json_loads(toks) ==
    LET r == ParseValue(toks, 1) IN
    IF r.ok /\ r.nxt = Len(toks) + 1 THEN r ELSE JsonFail


\* ------------------------------------------------------------------------
\* Regular-expression helpers over token sequences
\* ------------------------------------------------------------------------
\* Smallest index i >= from with toks[i] = tok, 0 when there is none.
FirstIndex(toks, tok, from) ==
    LET S == {i \in from..Len(toks) : toks[i] = tok} IN
    IF S = {} THEN 0 ELSE CHOOSE i \in S : \A k \in S : i <= k

\* Largest index i with toks[i] = tok, 0 when there is none.
LastIndex(toks, tok) ==
    LET S == {i \in 1..Len(toks) : toks[i] = tok} IN
    IF S = {} THEN 0 ELSE CHOOSE i \in S : \A k \in S : i >= k

\* re.findall of  open [\s\S]*? close : leftmost, shortest, non-overlapping.
RECURSIVE FindAllLazy(_, _, _, _)
FindAllLazy(text, open, close, pos) ==
    LET i == FirstIndex(text, open, pos)
        j == IF i = 0 THEN 0 ELSE FirstIndex(text, close, i + 1)
    IN  IF i = 0 \/ j = 0 THEN <<>>
        ELSE <<SubSeq(text, i, j)>> \o FindAllLazy(text, open, close, j + 1)

\* Start of a fence at or after pos (followed by the word json when withJson).
FenceStart(text, withJson, pos) ==
    LET S == {i \in pos..Len(text) :
                 /\ text[i] = "F"
                 /\ withJson => (i + 1 <= Len(text) /\ text[i + 1] = "j")} IN
    IF S = {} THEN 0 ELSE CHOOSE i \in S : \A k \in S : i <= k

\* re.findall of  ```json\s*([\s\S]*?)\s*```  and of  ```\s*([\s\S]*?)\s*``` :
\* the captured interiors, in order.
RECURSIVE FindAllFence(_, _, _)
FindAllFence(text, withJson, pos) ==
    LET i == FenceStart(text, withJson, pos)
        b == i + (IF withJson THEN 2 ELSE 1)
        k == IF i = 0 THEN 0 ELSE FirstIndex(text, "F", b)
    IN  IF i = 0 \/ k = 0 THEN <<>>
        ELSE <<SubSeq(text, b, k - 1)>> \o FindAllFence(text, withJson, k + 1)

\* re.search of  open .* close  with DOTALL: first open to last close.
SearchGreedy(text, open, close) ==
    LET i == FirstIndex(text, open, 1)
        j == LastIndex(text, close)
    IN  IF i = 0 \/ j < i THEN <<>> ELSE SubSeq(text, i, j)

\* ------------------------------------------------------------------------
\* safe_extract_json (genai variant)
\* ------------------------------------------------------------------------
\* The matches of the four patterns, in the order the two loops visit them.
patterns(text) ==
    FindAllLazy(text, "[", "]", 1) \o FindAllFence(text, TRUE, 1)
        \o FindAllFence(text, FALSE, 1) \o FindAllLazy(text, "{", "}", 1)

\* Variant of FirstRecovered that returns whatever JSON value parses first,
\* as it is.
RECURSIVE FirstRecoveredAnyType(_)
FirstRecoveredAnyType(matches) ==
    IF matches = <<>> THEN None
    ELSE LET r == json_loads(Head(matches)) IN
         IF r.ok THEN r.v ELSE FirstRecoveredAnyType(Tail(matches))

\* Lines 97-114: the first match that parses to an object or an array.
RECURSIVE FirstRecovered(_)
FirstRecovered(matches) ==
    IF matches = <<>> THEN None
    ELSE LET r == json_loads(Head(matches)) IN
         IF r.ok /\ r.v.t = "dict" THEN [t |-> "list", items |-> <<r.v>>]
         ELSE IF r.ok /\ r.v.t = "list" THEN r.v
         ELSE FirstRecovered(Tail(matches))

safe_extract_json(text) == FirstRecovered(patterns(text))

\* ------------------------------------------------------------------------
\* Python built-ins used on values
\* ------------------------------------------------------------------------
\* item.get(field, default), and  field in item .  A later member of a JSON
\* object replaces an earlier one of the same key.
HasKey(item, field) == \E i \in 1..Len(item.items) : item.items[i].key = field
Get(item, field, default) ==
    IF ~HasKey(item, field) THEN default
    ELSE LET S == {i \in 1..Len(item.items) : item.items[i].key = field}
         IN  item.items[CHOOSE i \in S : \A k \in S : i >= k].value

\* The characters of str(value); repr is not modelled for lists and dicts.
str(value) ==
    IF value.t \in {"str", "num"} THEN Str(value.s)
    ELSE IF value.t = "none" THEN Str(<<"N", "o", "n", "e">>)
    ELSE Str(<<"repr">>)

\* value.replace(old, ' ')
replace(value, old) ==
    Str([i \in 1..Len(value.s) |-> IF value.s[i] = old THEN " " ELSE value.s[i]])

Whitespace == {" ", "LF", "CR"}
RECURSIVE lstrip(_)
lstrip(chars) ==
    IF chars # <<>> /\ Head(chars) \in Whitespace THEN lstrip(Tail(chars)) ELSE chars
RECURSIVE rstrip(_)
rstrip(chars) ==
    IF chars # <<>> /\ chars[Len(chars)] \in Whitespace
    THEN rstrip(SubSeq(chars, 1, Len(chars) - 1)) ELSE chars
strip(chars) == rstrip(lstrip(chars))

\* not value
Falsy(value) ==
    \/ value.t = "none"
    \/ value.t = "str" /\ value.s = <<>>
    \/ value.t = "num" /\ value.s = <<"0">>
    \/ value.t \in {"list", "dict"} /\ value.items = <<>>

\* ------------------------------------------------------------------------
\* clean_currency
\* ------------------------------------------------------------------------
\* The characters \d matches: the ten ASCII digits and, the pattern being a
\* str pattern, every other decimal digit of Unicode ("fw1" is the fullwidth
\* digit one).
Digits == {"0", "1", "2", "3", "4", "5", "6", "7", "8", "9", "fw1"}
NA == <<"N", "/", "A">>
Sentinels == {<<>>, <<"eops", "eum">>, NA}      \* "", "없음", "N/A"

\* Variant of clean_currency that drops the leading zeros of the digits.
RECURSIVE DropZeros(_)
DropZeros(chars) ==
    IF Len(chars) > 1 /\ Head(chars) = "0" THEN DropZeros(Tail(chars)) ELSE chars

clean_currencyAsNumber(value) ==
    IF value.t # "str" THEN Str(<<"0">>)
    ELSE IF strip(value.s) \in Sentinels THEN Str(<<"0">>)
    ELSE LET cleaned == SelectSeq(value.s, LAMBDA c : c \in Digits)
         IN  IF cleaned # <<>> THEN Str(DropZeros(cleaned)) ELSE Str(<<"0">>)

\* Variant of clean_currency without the fallback for a string of no digit.
clean_currencyNoFallback(value) ==
    IF value.t # "str" THEN Str(<<"0">>)
    ELSE IF strip(value.s) \in Sentinels THEN Str(<<"0">>)
    ELSE Str(SelectSeq(value.s, LAMBDA c : c \in Digits))

\* Lines 79-83 (the same function at gemini-pdf-ocr.py 57-61 and
\* gemini-ocr_vertex.py 74-78).
clean_currency(value) ==
    IF value.t # "str" THEN Str(<<"0">>)
    ELSE IF strip(value.s) \in Sentinels THEN Str(<<"0">>)
    ELSE LET cleaned == SelectSeq(value.s, LAMBDA c : c \in Digits)
         IN  IF cleaned # <<>> THEN Str(cleaned) ELSE Str(<<"0">>)

\* ------------------------------------------------------------------------
\* validate_and_fix_data (genai variant)
\* ------------------------------------------------------------------------
\* Lines 189-192: item[field] = "N/A" for every schema field item lacks; the
\* new keys come after the keys item had.
FillFields(item) ==
    LET missing == SelectSeq(EXTRACTION_FIELDS, LAMBDA field : ~HasKey(item, field))
    IN  [item EXCEPT !.items =
            @ \o [i \in 1..Len(missing) |-> [key |-> missing[i], value |-> Str(NA)]]]

\* Variant of validate_and_fix_data that returns the records of a list in
\* reverse order.
validate_and_fix_dataReversed(data_list) ==
    IF data_list.t # "list"
    THEN IF data_list.t = "dict" THEN <<data_list>> ELSE <<>>
    ELSE LET kept == SelectSeq(data_list.items, LAMBDA item : item.t = "dict")
         IN  [i \in 1..Len(kept) |-> FillFields(kept[Len(kept) + 1 - i])]

\* Lines 179-197. The keys are added to the records of data_list themselves;
\* nothing reads data_list after the call, so the model leaves it as passed.
validate_and_fix_data(data_list) ==
    IF data_list.t # "list"
    THEN IF data_list.t = "dict" THEN <<data_list>> ELSE <<>>
    ELSE LET kept == SelectSeq(data_list.items, LAMBDA item : item.t = "dict")
         IN  [i \in 1..Len(kept) |-> FillFields(kept[i])]

\* ------------------------------------------------------------------------
\* Inputs: the response texts the model call may produce
\* ------------------------------------------------------------------------
Responses ==
    { <<"[", "{", "m", "}", "]">>,                       \* one record
      <<"p", "[", "{", "m", "}", ",", "{", "m", "}", "]">>,  \* prose, two records
      <<"[", "]">>,                                      \* an empty array
      <<"[", "n", "]">>,                                 \* an array of a number
      <<"F", "j", "{", "m", "}", "F">>,                  \* a fenced object
      <<"p">> }                                          \* no JSON at all

\* The three spreadsheet scripts; the fourth value of variant is "docs".
Variants == {"genai", "vertex", "ocr"}

\* ------------------------------------------------------------------------
\* State
\* ------------------------------------------------------------------------
VARIABLES
    variant,          \* which script runs
    pdf_files,        \* number of documents listed; documents are 1..pdf_files
    pdf_file,         \* loop variable of main's for loop (0 before the loop)
    pc,               \* position of the single thread of control
    attempt,          \* loop variable of the retry loop (0-based)
    uploaded_file,    \* handle held by the extractor, 0 for None
    response,         \* response.text of the current attempt
    extracted,        \* value returned by the extractor
    validated_data,   \* what validate_and_fix_data returned for this document
    pending,          \* how the try block is being left while finally runs
    exc,              \* the exception in flight
    rows_to_append,   \* rows built for the current document
    worksheet,        \* rows of sheet1
    log_worksheet,    \* rows of the error-log sheet
    total_rows_added, \* counter of main
    error_count,      \* counter of main
    summary,          \* what the end-of-run summary printed
    remote_files,     \* handles uploaded for this document and not deleted
    delete_log,       \* handles genai.delete_file was called with, this document
    history,          \* outcome of each attempt made for this document
    raised,           \* documents for which main's except block was entered
    document,         \* sections of the target Google document, first to last
    error_files,      \* error_files of the docs variant's main
    arg,              \* argument of the call of clean_currency under check
    result            \* what that call returned (None before it returns)

vars == <<variant, pdf_files, pdf_file, pc, attempt, uploaded_file, response,
          extracted, validated_data, pending, exc, rows_to_append, worksheet,
          log_worksheet,
          total_rows_added, error_count, summary, remote_files, delete_log,
          history, raised, document, error_files, arg, result>>

extractor_vars == <<attempt, uploaded_file, response, extracted, pending,
                    remote_files, delete_log, history>>
sink_vars == <<worksheet, log_worksheet, total_rows_added, error_count, summary>>
run_vars == <<variant, pdf_files, pdf_file, validated_data>>
docs_vars == <<document, error_files>>
call_vars == <<arg, result>>
other_vars == <<run_vars, raised, docs_vars, call_vars>>

NoExc == [type |-> "none", text |-> <<>>]
Exc(type, text) == [type |-> type, text |-> text]

NoSummary == [files |-> 0, success |-> 0, errors |-> 0, rows |-> 0, printed |-> FALSE]

\* The handle genai.upload_file returns for attempt a of document d.
Handle(d, a) == (d - 1) * max_retries + a + 1

\* The decimal form of a natural number.
RECURSIVE Decimal(_)
Decimal(n) ==
    LET digit == <<"0", "1", "2", "3", "4", "5", "6", "7", "8", "9">>
    IN  IF n < 10 THEN <<digit[n + 1]>>
        ELSE Append(Decimal(n \div 10), digit[(n % 10) + 1])

\* The name of document d as main writes it; "" for d = 0.
FileName(d) == IF d = 0 THEN Str(<<>>) ELSE Str(<<"pdf">> \o Decimal(d))

\* The header of sheet1 and the header of the error-log sheet.
headers ==
    <<Str(<<"file">>)>>
        \o (IF variant = "genai" THEN <<Str(<<"row">>)>> ELSE <<>>)
        \o [i \in 1..Len(EXTRACTION_FIELDS) |-> Str(<<EXTRACTION_FIELDS[i]>>)]
log_headers ==
    <<Str(<<"file">>), Str(<<"error">>)>>
        \o (IF variant = "genai" THEN <<Str(<<"time">>)>> ELSE <<>>)

\* What main writes in the cells of a log row: the file name, a text, and in
\* the genai variant the time.
LogCells(file, text) ==
    <<FileName(file), Str(text)>>
        \o (IF variant = "genai" THEN <<Str(<<"time">>)>> ELSE <<>>)

\* Rows.  cells is the row as it is written.  file = 0 stands for the empty
\* string in the file-name column, row_number = 0 for a variant without
\* that column.
HeaderRow(cells) ==
    [kind |-> "Header", file |-> 0, row_number |-> 0, cells |-> cells,
     error |-> NoExc]
OutputRow(file, n, cells) ==
    [kind |-> "OutputRow", file |-> file, row_number |-> n, cells |-> cells,
     error |-> NoExc]
ErrorRecord(file, e) ==
    [kind |-> "ErrorRecord", file |-> file, row_number |-> 0,
     cells |-> LogCells(file, <<"error">>), error |-> e]
NoDataRecord(file) ==
    [kind |-> "NoData", file |-> file, row_number |-> 0,
     cells |-> LogCells(file, <<"no valid data">>), error |-> NoExc]

Init ==
    /\ variant \in Variants
    /\ pdf_files \in 1..MaxDocs
    /\ pdf_file = 0
    /\ pc = "header"
    /\ attempt = 0
    /\ uploaded_file = 0
    /\ response = <<>>
    /\ extracted = None
    /\ validated_data = <<>>
    /\ pending = "none"
    /\ exc = NoExc
    /\ rows_to_append = <<>>
    /\ worksheet = <<>>
    /\ log_worksheet = IF variant = "vertex" THEN <<>> ELSE <<HeaderRow(log_headers)>>
    /\ total_rows_added = 0
    /\ error_count = 0
    /\ summary = NoSummary
    /\ remote_files = {}
    /\ delete_log = <<>>
    /\ history = <<>>
    /\ raised = {}
    /\ document = <<>>
    /\ error_files = <<>>
    /\ arg = None
    /\ result = None

\* ------------------------------------------------------------------------
\* main: header of sheet1
\* ------------------------------------------------------------------------
\* worksheet.row_values(1) is empty: the header is appended; a failure of
\* either call is printed and main goes on.
Header ==
    /\ pc = "header"
    /\ \E ok \in BOOLEAN :
         worksheet' = IF ok /\ worksheet = <<>> THEN <<HeaderRow(headers)>>
                      ELSE worksheet
    /\ pc' = "loop"
    /\ UNCHANGED <<other_vars, extractor_vars, exc, rows_to_append, log_worksheet,
                   total_rows_added, error_count, summary>>

\* ------------------------------------------------------------------------
\* main: for pdf_file in pdf_files, and the entry of the extractor
\* ------------------------------------------------------------------------
\* Where control goes once os.path.exists(file_path) held.
ExtractorEntry ==
    IF variant = "genai" THEN "upload"
    ELSE IF variant = "vertex" THEN "vertex_request"
    ELSE IF variant = "ocr" THEN "ocr_upload" ELSE "docs_upload"

ForNext ==
    /\ pc = "loop"
    /\ pdf_file < pdf_files
    /\ pdf_file' = pdf_file + 1
    /\ attempt' = 0
    /\ uploaded_file' = 0
    /\ response' = <<>>
    /\ extracted' = None
    /\ validated_data' = <<>>
    /\ pending' = "none"
    /\ rows_to_append' = <<>>
    /\ delete_log' = <<>>
    /\ history' = <<>>
    /\ \E exists \in BOOLEAN :
         IF exists
         THEN pc' = ExtractorEntry /\ exc' = NoExc
         ELSE pc' = "handler" /\ exc' = Exc("FileNotFoundError", <<>>)
    /\ remote_files' = {}
    /\ UNCHANGED <<variant, pdf_files, sink_vars, raised, docs_vars, call_vars>>

ForEnd ==
    /\ pc = "loop"
    /\ pdf_file = pdf_files
    /\ pc' = "summary"
    /\ UNCHANGED <<other_vars, extractor_vars, exc, rows_to_append, sink_vars>>

\* ------------------------------------------------------------------------
\* extract_data_with_gemini (genai variant): the retry loop
\* ------------------------------------------------------------------------
\* genai.upload_file: returns a new handle or raises.  On a raise
\* uploaded_file keeps the value the previous iteration left in it.
Upload ==
    /\ pc = "upload"
    /\ \E ok \in BOOLEAN :
         IF ok
         THEN /\ uploaded_file' = Handle(pdf_file, attempt)
              /\ remote_files' = remote_files \cup {Handle(pdf_file, attempt)}
              /\ pc' = "request"
              /\ UNCHANGED <<exc, history>>
         ELSE /\ exc' = Exc("UploadError", <<>>)
              /\ history' = Append(history, "upload_exc")
              /\ pc' = "except"
              /\ UNCHANGED <<uploaded_file, remote_files>>
    /\ UNCHANGED <<other_vars, attempt, response, extracted, pending,
                   rows_to_append, sink_vars, delete_log>>

\* model.generate_content and response.text: a text or an exception.
GenerateContent ==
    /\ pc = "request"
    /\ \/ \E r \in Responses :
            /\ response' = r
            /\ pc' = "parse"
            /\ UNCHANGED <<exc, history>>
       \/ /\ exc' = Exc("ModelError", <<>>)
          /\ history' = Append(history, "call_exc")
          /\ pc' = "except"
          /\ UNCHANGED response
    /\ UNCHANGED <<other_vars, attempt, uploaded_file, extracted, pending,
                   rows_to_append, sink_vars, remote_files, delete_log>>

\* Variant of Parse whose terminal error does not carry the response text.
ParseErrorWithoutText ==
    /\ pc = "parse"
    /\ LET extracted_data == safe_extract_json(response) IN
       IF extracted_data = None
       THEN /\ history' = Append(history, "parse_fail")
            /\ IF attempt < max_retries - 1
               THEN pending' = "continue" /\ pc' = "finally" /\ UNCHANGED exc
               ELSE /\ exc' = Exc("ValueError", <<>>)
                    /\ pc' = "except"
                    /\ UNCHANGED pending
            /\ UNCHANGED extracted
       ELSE /\ extracted' = extracted_data
            /\ history' = Append(history, "ok")
            /\ pending' = "return"
            /\ pc' = "finally"
            /\ UNCHANGED exc
    /\ UNCHANGED <<other_vars, attempt, uploaded_file, response, rows_to_append,
                   sink_vars, remote_files, delete_log>>

\* Lines 148-159: safe_extract_json, then continue, raise ValueError or return.
Parse ==
    /\ pc = "parse"
    /\ LET extracted_data == safe_extract_json(response) IN
       IF extracted_data = None
       THEN /\ history' = Append(history, "parse_fail")
            /\ IF attempt < max_retries - 1
               THEN pending' = "continue" /\ pc' = "finally" /\ UNCHANGED exc
               ELSE /\ exc' = Exc("ValueError", response)
                    /\ pc' = "except"
                    /\ UNCHANGED pending
            /\ UNCHANGED extracted
       ELSE /\ extracted' = extracted_data
            /\ history' = Append(history, "ok")
            /\ pending' = "return"
            /\ pc' = "finally"
            /\ UNCHANGED exc
    /\ UNCHANGED <<other_vars, attempt, uploaded_file, response, rows_to_append,
                   sink_vars, remote_files, delete_log>>

\* Variant of Except with the bound off by one: the last attempt is dropped too.
ExceptOffByOne ==
    /\ pc = "except"
    /\ pending' = IF attempt = max_retries THEN "raise" ELSE "swallow"
    /\ pc' = "finally"
    /\ UNCHANGED <<other_vars, attempt, uploaded_file, response, extracted, exc,
                   rows_to_append, sink_vars, remote_files, delete_log, history>>

\* except Exception as e: re-raised on the last attempt, dropped otherwise.
Except ==
    /\ pc = "except"
    /\ pending' = IF attempt = max_retries - 1 THEN "raise" ELSE "swallow"
    /\ pc' = "finally"
    /\ UNCHANGED <<other_vars, attempt, uploaded_file, response, extracted, exc,
                   rows_to_append, sink_vars, remote_files, delete_log, history>>

\* Where control goes when the finally block is done.
AfterFinally ==
    IF pending = "return" THEN "validate"
    ELSE IF pending = "raise" THEN "handler"
    ELSE IF attempt + 1 < max_retries THEN "upload"
    ELSE "validate"     \* the for loop ends: the function returns None

\* Variant of Finally that returns before the cleanup: no delete on a return.
FinallySkipsOnReturn ==
    /\ pc = "finally"
    /\ IF uploaded_file # 0 /\ pending # "return"
       THEN /\ delete_log' = Append(delete_log, uploaded_file)
            /\ \E ok \in BOOLEAN :
                 IF ok
                 THEN /\ remote_files' = remote_files \ {uploaded_file}
                      /\ uploaded_file' = 0
                 ELSE UNCHANGED <<remote_files, uploaded_file>>
       ELSE UNCHANGED <<delete_log, remote_files, uploaded_file>>
    /\ pc' = AfterFinally
    /\ attempt' = IF pending \in {"continue", "swallow"} THEN attempt + 1 ELSE attempt
    /\ extracted' = IF pending \in {"continue", "swallow"} THEN None ELSE extracted
    /\ exc' = IF pending = "raise" THEN exc ELSE NoExc
    /\ pending' = "none"
    /\ UNCHANGED <<other_vars, response, rows_to_append, sink_vars, history>>

\* finally: genai.delete_file on the handle held, its failure printed only.
Finally ==
    /\ pc = "finally"
    /\ IF uploaded_file # 0
       THEN /\ delete_log' = Append(delete_log, uploaded_file)
            /\ \E ok \in BOOLEAN :
                 IF ok
                 THEN /\ remote_files' = remote_files \ {uploaded_file}
                      /\ uploaded_file' = 0
                 ELSE UNCHANGED <<remote_files, uploaded_file>>
       ELSE UNCHANGED <<delete_log, remote_files, uploaded_file>>
    /\ pc' = AfterFinally
    /\ attempt' = IF pending \in {"continue", "swallow"} THEN attempt + 1 ELSE attempt
    /\ extracted' = IF pending \in {"continue", "swallow"} THEN None ELSE extracted
    /\ exc' = IF pending = "raise" THEN exc ELSE NoExc
    /\ pending' = "none"
    /\ UNCHANGED <<other_vars, response, rows_to_append, sink_vars, history>>

\* ------------------------------------------------------------------------
\* main (genai variant): one document after the extractor returned
\* ------------------------------------------------------------------------
\* Lines 284-292: the cell of one field.
GenaiCell(extracted_data, field) ==
    LET value == Get(extracted_data, field, Str(NA))
        flat == IF value.t = "str" THEN replace(replace(value, "LF"), "CR") ELSE value
        cleaned == IF field \in currency_fields THEN clean_currency(str(flat)) ELSE flat
    IN  str(cleaned)

\* Variant of BuildRows that writes the file name on every row.
BuildRowsNamesEveryRow(file, records) ==
    [i \in 1..Len(records) |->
        OutputRow(file, i,
                  <<FileName(file), Num(Decimal(i))>>
                      \o [k \in 1..Len(EXTRACTION_FIELDS) |->
                            GenaiCell(records[i], EXTRACTION_FIELDS[k])])]

\* Lines 279-294: one row per validated record, the file name on the first.
BuildRows(file, records) ==
    [i \in 1..Len(records) |->
        OutputRow(IF i = 1 THEN file ELSE 0, i,
                  <<FileName(IF i = 1 THEN file ELSE 0), Num(Decimal(i))>>
                      \o [k \in 1..Len(EXTRACTION_FIELDS) |->
                            GenaiCell(records[i], EXTRACTION_FIELDS[k])])]

\* Lines 270-294: validate_and_fix_data, the empty check, the rows.
Validate ==
    /\ pc = "validate"
    /\ validated_data' = validate_and_fix_data(extracted)
    /\ IF validated_data' = <<>>
       THEN pc' = "log_empty" /\ UNCHANGED rows_to_append
       ELSE /\ rows_to_append' = BuildRows(pdf_file, validated_data')
            /\ pc' = "append_rows"
    /\ UNCHANGED <<variant, pdf_files, pdf_file, raised, extractor_vars, exc,
                   sink_vars, docs_vars, call_vars>>

\* Variant of LogEmpty that counts the document without valid data as an error.
LogEmptyCountsError ==
    /\ pc = "log_empty"
    /\ \E ok \in BOOLEAN :
         IF ok
         THEN /\ log_worksheet' = Append(log_worksheet, NoDataRecord(pdf_file))
              /\ error_count' = error_count + 1
              /\ pc' = "loop"
              /\ UNCHANGED exc
         ELSE /\ exc' = Exc("SinkError", <<>>)
              /\ pc' = "handler"
              /\ UNCHANGED <<log_worksheet, error_count>>
    /\ UNCHANGED <<other_vars, extractor_vars, rows_to_append, worksheet,
                   total_rows_added, summary>>

\* Line 275: the note for a document without valid data, then continue.
LogEmpty ==
    /\ pc = "log_empty"
    /\ \E ok \in BOOLEAN :
         IF ok
         THEN /\ log_worksheet' = Append(log_worksheet, NoDataRecord(pdf_file))
              /\ pc' = "loop"
              /\ UNCHANGED exc
         ELSE /\ exc' = Exc("SinkError", <<>>)
              /\ pc' = "handler"
              /\ UNCHANGED log_worksheet
    /\ UNCHANGED <<other_vars, extractor_vars, rows_to_append, worksheet,
                   total_rows_added, error_count, summary>>

\* Variant of AppendRows that counts one per write instead of one per row.
AppendRowsCountsWrites ==
    /\ pc = "append_rows"
    /\ \E ok \in BOOLEAN :
         IF ok
         THEN /\ worksheet' = worksheet \o rows_to_append
              /\ total_rows_added' = total_rows_added + 1
              /\ pc' = "loop"
              /\ UNCHANGED exc
         ELSE /\ exc' = Exc("SinkError", <<>>)
              /\ pc' = "handler"
              /\ UNCHANGED <<worksheet, total_rows_added>>
    /\ UNCHANGED <<other_vars, extractor_vars, rows_to_append, log_worksheet,
                   error_count, summary>>

\* Variant of AppendRows that writes the rows one call each: a call after
\* the first may be the one that raises.
AppendRowsOneByOne ==
    /\ pc = "append_rows"
    /\ \E ok \in BOOLEAN :
         IF ok
         THEN /\ worksheet' = worksheet \o rows_to_append
              /\ total_rows_added' = total_rows_added + Len(rows_to_append)
              /\ pc' = "loop"
              /\ UNCHANGED exc
         ELSE /\ \E n \in 0..(Len(rows_to_append) - 1) :
                    worksheet' = worksheet \o SubSeq(rows_to_append, 1, n)
              /\ exc' = Exc("SinkError", <<>>)
              /\ pc' = "handler"
              /\ UNCHANGED total_rows_added
    /\ UNCHANGED <<other_vars, extractor_vars, rows_to_append, log_worksheet,
                   error_count, summary>>

\* Lines 297-299: worksheet.append_rows, one call that is accepted or raises
\* with nothing written, and the row counter.
AppendRows ==
    /\ pc = "append_rows"
    /\ \E ok \in BOOLEAN :
         IF ok
         THEN /\ worksheet' = worksheet \o rows_to_append
              /\ total_rows_added' = total_rows_added + Len(rows_to_append)
              /\ pc' = "loop"
              /\ UNCHANGED exc
         ELSE /\ exc' = Exc("SinkError", <<>>)
              /\ pc' = "handler"
              /\ UNCHANGED <<worksheet, total_rows_added>>
    /\ UNCHANGED <<other_vars, extractor_vars, rows_to_append, log_worksheet,
                   error_count, summary>>

\* Variant of Handler that writes the failure to sheet1, as the vertex
\* variant does, instead of the error-log sheet.
HandlerWritesToSheet1 ==
    /\ pc = "handler"
    /\ variant = "genai"
    /\ \E ok \in BOOLEAN :
         IF ok
         THEN /\ worksheet' = Append(worksheet, ErrorRecord(pdf_file, exc))
              /\ error_count' = error_count + 1
              /\ pc' = "loop"
         ELSE /\ pc' = "aborted"
              /\ UNCHANGED <<worksheet, error_count>>
    /\ raised' = raised \cup {pdf_file}
    /\ UNCHANGED <<run_vars, extractor_vars, exc, rows_to_append, log_worksheet,
                   total_rows_added, summary, docs_vars, call_vars>>

\* Lines 305-313: the except block of main.  log_worksheet.append_row is not
\* guarded: when it raises, the exception leaves main.
Handler ==
    /\ pc = "handler"
    /\ variant = "genai"
    /\ \E ok \in BOOLEAN :
         IF ok
         THEN /\ log_worksheet' = Append(log_worksheet, ErrorRecord(pdf_file, exc))
              /\ error_count' = error_count + 1
              /\ pc' = "loop"
         ELSE /\ pc' = "aborted"
              /\ UNCHANGED <<log_worksheet, error_count>>
    /\ raised' = raised \cup {pdf_file}
    /\ UNCHANGED <<run_vars, extractor_vars, exc, rows_to_append, worksheet,
                   total_rows_added, summary, docs_vars, call_vars>>

\* Lines 316-320 (genai); the other variants print no counts of this kind.
Summary ==
    /\ pc = "summary"
    /\ summary' = IF variant = "genai"
                  THEN [files |-> pdf_files, success |-> pdf_files - error_count,
                        errors |-> error_count, rows |-> total_rows_added,
                        printed |-> TRUE]
                  ELSE [NoSummary EXCEPT !.printed = TRUE]
    /\ pc' = "done"
    /\ UNCHANGED <<other_vars, extractor_vars, exc, rows_to_append, worksheet,
                   log_worksheet, total_rows_added, error_count>>

\* ------------------------------------------------------------------------
\* vertex variant
\* ------------------------------------------------------------------------
\* re.search of  ```json\s*(\[.*\])\s*```  : group 1, <<>> when no match.
VertexFencedSearch(text) ==
    LET S == {i \in 1..Len(text) :
                 /\ i + 2 <= Len(text)
                 /\ text[i] = "F" /\ text[i + 1] = "j" /\ text[i + 2] = "["
                 /\ \E k \in (i + 3)..(Len(text) - 1) :
                        text[k] = "]" /\ text[k + 1] = "F"}
    IN  IF S = {} THEN <<>>
        ELSE LET i == CHOOSE x \in S : \A y \in S : x <= y
                 K == {k \in (i + 3)..(Len(text) - 1) :
                          text[k] = "]" /\ text[k + 1] = "F"}
                 k == CHOOSE x \in K : \A y \in K : x >= y
             IN  SubSeq(text, i + 2, k)

\* Line 93: model.generate_content, outside any try of the extractor.
VertexGenerate ==
    /\ pc = "vertex_request"
    /\ \/ \E r \in Responses :
            response' = r /\ pc' = "vertex_parse" /\ UNCHANGED exc
       \/ /\ exc' = Exc("ModelError", <<>>)
          /\ pc' = "handler"
          /\ UNCHANGED response
    /\ UNCHANGED <<other_vars, attempt, uploaded_file, extracted, pending,
                   rows_to_append, sink_vars, remote_files, delete_log, history>>

\* Lines 96-107: the two searches and json.loads.
VertexParse ==
    /\ pc = "vertex_parse"
    /\ LET match == SearchGreedy(response, "[", "]")
           response_text == IF match = <<>> THEN VertexFencedSearch(response)
                            ELSE match
           r == json_loads(response_text)
       IN  IF response_text = <<>>
           THEN /\ exc' = Exc("ValueError", response)
                /\ pc' = "handler"
                /\ UNCHANGED extracted
           ELSE IF ~r.ok
           THEN /\ exc' = Exc("JSONDecodeError", <<>>)
                /\ pc' = "handler"
                /\ UNCHANGED extracted
           ELSE /\ extracted' = r.v
                /\ pc' = "vertex_build"
                /\ UNCHANGED exc
    /\ UNCHANGED <<other_vars, attempt, uploaded_file, response, pending,
                   rows_to_append, sink_vars, remote_files, delete_log, history>>

\* Lines 159-171: a row per element; .get on an element that is no mapping
\* raises AttributeError.
VertexCell(extracted_data, field) ==
    LET value == Get(extracted_data, field, Str(NA))
        flat == IF value.t = "str" THEN replace(value, "LF") ELSE value
    IN  IF field \in currency_fields THEN clean_currency(str(flat)) ELSE flat

VertexRows(file, items) ==
    [i \in 1..Len(items) |->
        OutputRow(IF i = 1 THEN file ELSE 0, 0,
                  <<FileName(IF i = 1 THEN file ELSE 0)>>
                      \o [k \in 1..Len(EXTRACTION_FIELDS) |->
                            VertexCell(items[i], EXTRACTION_FIELDS[k])])]

VertexBuild ==
    /\ pc = "vertex_build"
    /\ IF \E i \in 1..Len(extracted.items) : extracted.items[i].t # "dict"
       THEN /\ exc' = Exc("AttributeError", <<>>)
            /\ pc' = "handler"
            /\ UNCHANGED rows_to_append
       ELSE /\ rows_to_append' = VertexRows(pdf_file, extracted.items)
            /\ pc' = IF extracted.items = <<>> THEN "loop" ELSE "vertex_append"
            /\ UNCHANGED exc
    /\ UNCHANGED <<other_vars, extractor_vars, sink_vars>>

\* Line 174: worksheet.append_rows.
VertexAppend ==
    /\ pc = "vertex_append"
    /\ \E ok \in BOOLEAN :
         IF ok
         THEN worksheet' = worksheet \o rows_to_append /\ pc' = "loop" /\ UNCHANGED exc
         ELSE exc' = Exc("SinkError", <<>>) /\ pc' = "handler" /\ UNCHANGED worksheet
    /\ UNCHANGED <<other_vars, extractor_vars, rows_to_append, log_worksheet,
                   total_rows_added, error_count, summary>>

\* Lines 178-182: the failure is written to sheet1 itself.
VertexHandler ==
    /\ pc = "handler"
    /\ variant = "vertex"
    /\ \E ok \in BOOLEAN :
         IF ok
         THEN worksheet' = Append(worksheet, ErrorRecord(pdf_file, exc)) /\ pc' = "loop"
         ELSE pc' = "aborted" /\ UNCHANGED worksheet
    /\ raised' = raised \cup {pdf_file}
    /\ UNCHANGED <<run_vars, extractor_vars, exc, rows_to_append, log_worksheet,
                   total_rows_added, error_count, summary, docs_vars, call_vars>>

\* ------------------------------------------------------------------------
\* ocr variant
\* ------------------------------------------------------------------------
\* Line 77: genai.upload_file inside try ... finally (no except).
OcrUpload ==
    /\ pc = "ocr_upload"
    /\ \E ok \in BOOLEAN :
         IF ok
         THEN /\ uploaded_file' = Handle(pdf_file, 0)
              /\ remote_files' = remote_files \cup {Handle(pdf_file, 0)}
              /\ pc' = "ocr_request"
              /\ UNCHANGED <<exc, pending>>
         ELSE /\ exc' = Exc("UploadError", <<>>)
              /\ pending' = "raise"
              /\ pc' = "ocr_finally"
              /\ UNCHANGED <<uploaded_file, remote_files>>
    /\ UNCHANGED <<other_vars, attempt, response, extracted, rows_to_append,
                   sink_vars, delete_log, history>>

\* Line 85: model.generate_content.
OcrGenerate ==
    /\ pc = "ocr_request"
    /\ \/ \E r \in Responses :
            response' = r /\ pc' = "ocr_parse" /\ UNCHANGED <<exc, pending>>
       \/ /\ exc' = Exc("ModelError", <<>>)
          /\ pending' = "raise"
          /\ pc' = "ocr_finally"
          /\ UNCHANGED response
    /\ UNCHANGED <<other_vars, attempt, uploaded_file, extracted, rows_to_append,
                   sink_vars, remote_files, delete_log, history>>

\* Lines 88-94: the greedy object search and json.loads.
OcrParse ==
    /\ pc = "ocr_parse"
    /\ LET match == SearchGreedy(response, "{", "}")
           r == json_loads(match)
       IN  IF match = <<>>
           THEN /\ exc' = Exc("ValueError", response)
                /\ pending' = "raise"
                /\ UNCHANGED extracted
           ELSE IF ~r.ok
           THEN /\ exc' = Exc("JSONDecodeError", <<>>)
                /\ pending' = "raise"
                /\ UNCHANGED extracted
           ELSE /\ extracted' = r.v
                /\ pending' = "return"
                /\ UNCHANGED exc
    /\ pc' = "ocr_finally"
    /\ UNCHANGED <<other_vars, attempt, uploaded_file, response, rows_to_append,
                   sink_vars, remote_files, delete_log, history>>

\* Lines 96-100: finally; genai.delete_file is not guarded, so its exception
\* replaces the return value or the exception in flight.
OcrFinally ==
    /\ pc = "ocr_finally"
    /\ IF uploaded_file # 0
       THEN /\ delete_log' = Append(delete_log, uploaded_file)
            /\ \E ok \in BOOLEAN :
                 IF ok
                 THEN /\ remote_files' = remote_files \ {uploaded_file}
                      /\ pc' = IF pending = "return" THEN "ocr_append" ELSE "handler"
                      /\ UNCHANGED <<exc, extracted>>
                 ELSE /\ exc' = Exc("DeleteError", <<>>)
                      /\ extracted' = None
                      /\ pc' = "handler"
                      /\ UNCHANGED remote_files
       ELSE /\ pc' = IF pending = "return" THEN "ocr_append" ELSE "handler"
            /\ UNCHANGED <<delete_log, remote_files, exc, extracted>>
    /\ pending' = "none"
    /\ UNCHANGED <<other_vars, attempt, uploaded_file, response, rows_to_append,
                   sink_vars, history>>

\* Lines 168-175: the cell of one field.
OcrCell(extracted_data, field) ==
    LET value == Get(extracted_data, field, Str(NA))
    IN  IF Falsy(value) \/ strip(str(value).s) = NA THEN Str(NA)
        ELSE LET flat == replace(str(value), "LF")
             IN  IF field \in currency_fields THEN clean_currency(flat) ELSE flat

\* Lines 166-176: the single row of a document.
OcrRow(file, extracted_data) ==
    OutputRow(file, 0,
              <<FileName(file)>>
                  \o [k \in 1..Len(EXTRACTION_FIELDS) |->
                        OcrCell(extracted_data, EXTRACTION_FIELDS[k])])

\* Lines 166-177: the single row of the document and worksheet.append_row.
OcrAppend ==
    /\ pc = "ocr_append"
    /\ rows_to_append' = <<OcrRow(pdf_file, extracted)>>
    /\ \E ok \in BOOLEAN :
         IF ok
         THEN /\ worksheet' = Append(worksheet, OcrRow(pdf_file, extracted))
              /\ pc' = "loop"
              /\ UNCHANGED exc
         ELSE /\ exc' = Exc("SinkError", <<>>)
              /\ pc' = "handler"
              /\ UNCHANGED worksheet
    /\ UNCHANGED <<other_vars, extractor_vars, log_worksheet, total_rows_added,
                   error_count, summary>>

\* Lines 180-186: the except block of main.
OcrHandler ==
    /\ pc = "handler"
    /\ variant = "ocr"
    /\ \E ok \in BOOLEAN :
         IF ok
         THEN /\ log_worksheet' = Append(log_worksheet, ErrorRecord(pdf_file, exc))
              /\ error_count' = error_count + 1
              /\ pc' = "loop"
         ELSE /\ pc' = "aborted"
              /\ UNCHANGED <<log_worksheet, error_count>>
    /\ raised' = raised \cup {pdf_file}
    /\ UNCHANGED <<run_vars, extractor_vars, exc, rows_to_append, worksheet,
                   total_rows_added, summary, docs_vars, call_vars>>

\* ------------------------------------------------------------------------
\* docs variant (gemini-pdf-ocr-docs.py)
\* ------------------------------------------------------------------------
\* Line 37: genai.upload_file inside try ... finally (no except).
DocsUpload ==
    /\ pc = "docs_upload"
    /\ \E ok \in BOOLEAN :
         IF ok
         THEN /\ uploaded_file' = Handle(pdf_file, 0)
              /\ remote_files' = remote_files \cup {Handle(pdf_file, 0)}
              /\ pc' = "docs_request"
              /\ UNCHANGED <<exc, pending>>
         ELSE /\ exc' = Exc("UploadError", <<>>)
              /\ pending' = "raise"
              /\ pc' = "docs_finally"
              /\ UNCHANGED <<uploaded_file, remote_files>>
    /\ UNCHANGED <<other_vars, attempt, response, extracted, rows_to_append,
                   sink_vars, delete_log, history>>

\* Lines 42-46: model.generate_content and  return response.text .
DocsGenerate ==
    /\ pc = "docs_request"
    /\ \/ \E r \in Responses :
            /\ response' = r
            /\ extracted' = Str(r)
            /\ pending' = "return"
            /\ UNCHANGED exc
       \/ /\ exc' = Exc("ModelError", <<>>)
          /\ pending' = "raise"
          /\ UNCHANGED <<response, extracted>>
    /\ pc' = "docs_finally"
    /\ UNCHANGED <<other_vars, attempt, uploaded_file, rows_to_append,
                   sink_vars, remote_files, delete_log, history>>

\* Lines 48-51: finally; genai.delete_file is not guarded, so its exception
\* replaces the return value or the exception in flight.
DocsFinally ==
    /\ pc = "docs_finally"
    /\ IF uploaded_file # 0
       THEN /\ delete_log' = Append(delete_log, uploaded_file)
            /\ \E ok \in BOOLEAN :
                 IF ok
                 THEN /\ remote_files' = remote_files \ {uploaded_file}
                      /\ pc' = IF pending = "return" THEN "docs_append" ELSE "handler"
                      /\ UNCHANGED <<exc, extracted>>
                 ELSE /\ exc' = Exc("DeleteError", <<>>)
                      /\ extracted' = None
                      /\ pc' = "handler"
                      /\ UNCHANGED remote_files
       ELSE /\ pc' = IF pending = "return" THEN "docs_append" ELSE "handler"
            /\ UNCHANGED <<delete_log, remote_files, exc, extracted>>
    /\ pending' = "none"
    /\ UNCHANGED <<other_vars, attempt, uploaded_file, response, rows_to_append,
                   sink_vars, history>>

\* Line 87: the text inserted for one file.
Section(file, text) == [file |-> file, text |-> text]

\* Lines 83-90: insertText at index 1, the first position of the body.
insertText(doc, section) == <<section>> \o doc

\* Lines 152 and 78-93: append_text_to_doc; batchUpdate is accepted or raises.
DocsAppend ==
    /\ pc = "docs_append"
    /\ \E ok \in BOOLEAN :
         IF ok
         THEN /\ document' = insertText(document, Section(pdf_file, extracted))
              /\ pc' = "loop"
              /\ UNCHANGED exc
         ELSE /\ exc' = Exc("SinkError", <<>>)
              /\ pc' = "handler"
              /\ UNCHANGED document
    /\ UNCHANGED <<run_vars, raised, error_files, call_vars, extractor_vars,
                   rows_to_append, sink_vars>>

\* Lines 156-160: the except block of main.
DocsHandler ==
    /\ pc = "handler"
    /\ variant = "docs"
    /\ error_files' = Append(error_files, pdf_file)
    /\ raised' = raised \cup {pdf_file}
    /\ pc' = "loop"
    /\ UNCHANGED <<run_vars, document, call_vars, extractor_vars, exc,
                   rows_to_append, sink_vars>>

\* Lines 124-143: the target document is an existing one, with whatever it
\* holds, or a new one; the files are listed; the loop is about to start.
OldContent == {<<>>, <<Section(0, Str(<<"p">>))>>}

DocsInit ==
    /\ variant = "docs"
    /\ pdf_files \in 1..MaxDocs
    /\ pdf_file = 0
    /\ pc = "loop"
    /\ attempt = 0
    /\ uploaded_file = 0
    /\ response = <<>>
    /\ extracted = None
    /\ validated_data = <<>>
    /\ pending = "none"
    /\ exc = NoExc
    /\ rows_to_append = <<>>
    /\ worksheet = <<>>
    /\ log_worksheet = <<>>
    /\ total_rows_added = 0
    /\ error_count = 0
    /\ summary = NoSummary
    /\ remote_files = {}
    /\ delete_log = <<>>
    /\ history = <<>>
    /\ raised = {}
    /\ document \in OldContent
    /\ error_files = <<>>
    /\ arg = None
    /\ result = None

DocsNext ==
    \/ ForNext
    \/ ForEnd
    \/ DocsUpload
    \/ DocsGenerate
    \/ DocsFinally
    \/ DocsAppend
    \/ DocsHandler
    \/ Summary

DocsSpec == DocsInit /\ [][DocsNext]_vars

\* ------------------------------------------------------------------------
\* Specification
\* ------------------------------------------------------------------------
Next ==
    \/ Header
    \/ ForNext
    \/ ForEnd
    \/ Upload
    \/ GenerateContent
    \/ Parse
    \/ Except
    \/ Finally
    \/ Validate
    \/ LogEmpty
    \/ AppendRows
    \/ Handler
    \/ Summary
    \/ VertexGenerate
    \/ VertexParse
    \/ VertexBuild
    \/ VertexAppend
    \/ VertexHandler
    \/ OcrUpload
    \/ OcrGenerate
    \/ OcrParse
    \/ OcrFinally
    \/ OcrAppend
    \/ OcrHandler

Spec == Init /\ [][Next]_vars

\* ------------------------------------------------------------------------
\* Wider inputs: responses generated from the JSON grammar
\* ------------------------------------------------------------------------
RECURSIVE JoinFrom(_, _)
JoinFrom(texts, i) ==
    IF i > Len(texts) THEN <<>>
    ELSE IF i = Len(texts) THEN texts[i]
    ELSE texts[i] \o <<",">> \o JoinFrom(texts, i + 1)

\* The arrays of at most n elements, each element a text of E.
ArraysOf(E, n) ==
    {<<"[">> \o JoinFrom(es, 1) \o <<"]">> :
        es \in UNION {[1..k -> E] : k \in 0..n}}

\* The records a response may hold: without a field, with one field, with
\* several.
RecordTexts ==
    {<<"{", "}">>} \cup {<<"{", x, "}">> : x \in MemberTokens}
        \cup {<<"{", "m", ",", "d", "}">>,
              <<"{", "m", ",", "d", ",", "h", "}">>,
              <<"{", "b", ",", "f", ",", "h", "}">>}

\* Responses of the kind the prompt asks for: an array of records, possibly
\* with an element that is no record; and a response without JSON.
RowTexts == ArraysOf(RecordTexts \cup {<<"n">>}, MaxRecords) \cup {<<"p">>}

\* JSON values nested two levels deep, and every short sequence of tokens.
Leaves == {<<"n">>, <<"{", "m", "}">>}
Inner ==
    Leaves \cup ArraysOf(Leaves, MaxElems)
        \cup {<<"{", "K">> \o a \o <<"}">> : a \in ArraysOf(Leaves, MaxElems)}
JsonTexts == Inner \cup ArraysOf(Inner, MaxElems)
\* A JSON text as the model may wrap it: bare, in prose, in a fence.
Wraps == {"bare", "after prose", "before prose", "in prose", "json fence",
          "fence", "json fence after prose"}
Wrap(w, v) ==
    CASE w = "bare" -> v
      [] w = "after prose" -> <<"p">> \o v
      [] w = "before prose" -> v \o <<"p">>
      [] w = "in prose" -> <<"p">> \o v \o <<"p">>
      [] w = "json fence" -> <<"F", "j">> \o v \o <<"F">>
      [] w = "fence" -> <<"F">> \o v \o <<"F">>
      [] w = "json fence after prose" -> <<"p", "F", "j">> \o v \o <<"F">>
Tokens == {"[", "]", "{", "}", ",", "m", "d", "K", "n", "p", "F", "j"}
ShortTexts == UNION {[1..k -> Tokens] : k \in 0..MaxTextLen}

\* The values validate_and_fix_data is called with: lists, bare objects and
\* values of other types.
ValidateInputs ==
    {json_loads(text).v :
        text \in ArraysOf(RecordTexts \cup {<<"n">>, <<"[", "]">>}, MaxRecords)
                    \cup RecordTexts \cup {<<"n">>}}
        \cup {None, Str(<<"X">>)}

\* The state in which the first response of the only document of a run has
\* just arrived.
AfterResponse(variants) ==
    /\ variant \in variants
    /\ pdf_files = 1
    /\ pdf_file = 1
    /\ pc = IF variant = "genai" THEN "parse"
            ELSE IF variant = "vertex" THEN "vertex_parse" ELSE "ocr_parse"
    /\ attempt = 0
    /\ uploaded_file = IF variant = "vertex" THEN 0 ELSE Handle(1, 0)
    /\ extracted = None
    /\ validated_data = <<>>
    /\ pending = "none"
    /\ exc = NoExc
    /\ rows_to_append = <<>>
    /\ worksheet = <<HeaderRow(headers)>>
    /\ log_worksheet = IF variant = "vertex" THEN <<>> ELSE <<HeaderRow(log_headers)>>
    /\ total_rows_added = 0
    /\ error_count = 0
    /\ summary = NoSummary
    /\ remote_files = IF variant = "vertex" THEN {} ELSE {Handle(1, 0)}
    /\ delete_log = <<>>
    /\ history = <<>>
    /\ raised = {}
    /\ document = <<>>
    /\ error_files = <<>>
    /\ arg = None
    /\ result = None

\* ------------------------------------------------------------------------
\* The parsers on every response text
\* ------------------------------------------------------------------------
ParseInit ==
    /\ AfterResponse({"genai", "vertex"})
    /\ \/ response \in ShortTexts
       \/ \E v \in JsonTexts, w \in Wraps : response = Wrap(w, v)

ParseNext == Parse \/ VertexParse

ParseSpec == ParseInit /\ [][ParseNext]_vars

\* ------------------------------------------------------------------------
\* One document from its response to its rows, on every response of RowTexts
\* ------------------------------------------------------------------------
RowInit == AfterResponse(Variants) /\ response \in RowTexts

RowNext ==
    \/ Parse
    \/ Except
    \/ Finally
    \/ Upload
    \/ GenerateContent
    \/ Validate
    \/ LogEmpty
    \/ AppendRows
    \/ Handler
    \/ VertexParse
    \/ VertexBuild
    \/ VertexAppend
    \/ VertexHandler
    \/ OcrParse
    \/ OcrFinally
    \/ OcrAppend
    \/ OcrHandler
    \/ ForEnd
    \/ Summary

RowSpec == RowInit /\ [][RowNext]_vars

\* ------------------------------------------------------------------------
\* validate_and_fix_data on every input
\* ------------------------------------------------------------------------
\* main (genai variant) at line 270, the extractor having returned; the
\* value it returned is drawn from ValidateInputs, which holds more than
\* safe_extract_json can return.
ValidateInit ==
    /\ variant = "genai"
    /\ pdf_files = 1
    /\ pdf_file = 1
    /\ pc = "validate"
    /\ attempt = 0
    /\ uploaded_file = 0
    /\ response = <<>>
    /\ extracted \in ValidateInputs
    /\ validated_data = <<>>
    /\ pending = "none"
    /\ exc = NoExc
    /\ rows_to_append = <<>>
    /\ worksheet = <<HeaderRow(headers)>>
    /\ log_worksheet = <<HeaderRow(log_headers)>>
    /\ total_rows_added = 0
    /\ error_count = 0
    /\ summary = NoSummary
    /\ remote_files = {}
    /\ delete_log = <<Handle(1, 0)>>
    /\ history = <<"ok">>
    /\ raised = {}
    /\ document = <<>>
    /\ error_files = <<>>
    /\ arg = None
    /\ result = None

ValidateNext ==
    \/ Validate
    \/ LogEmpty
    \/ AppendRows
    \/ Handler
    \/ ForEnd
    \/ Summary

ValidateSpec == ValidateInit /\ [][ValidateNext]_vars

\* ------------------------------------------------------------------------
\* clean_currency on every argument
\* ------------------------------------------------------------------------
\* The characters the strings are written with: digits, a thousands
\* separator, white space, the letters of the sentinels, a letter.
Chars == {"0", "1", "fw1", ",", " ", "LF", "N", "/", "A", "eops", "eum", "x"}

Pads == {<<>>, <<" ">>, <<"LF", " ">>}

\* Every string of up to MaxChars characters, the sentinels inside white
\* space, and values that are no strings.
CurrencyInputs ==
    {Str(chars) : chars \in UNION {[1..k -> Chars] : k \in 0..MaxChars}}
        \cup {Str(l \o sentinel \o r) : l \in Pads, r \in Pads, sentinel \in Sentinels}
        \cup {None, Num(<<"7", "0">>), [t |-> "list", items |-> <<>>]}

CurrencyInit ==
    /\ variant = "genai"
    /\ pdf_files = 1
    /\ pdf_file = 1
    /\ pc = "clean_currency"
    /\ attempt = 0
    /\ uploaded_file = 0
    /\ response = <<>>
    /\ extracted = None
    /\ validated_data = <<>>
    /\ pending = "none"
    /\ exc = NoExc
    /\ rows_to_append = <<>>
    /\ worksheet = <<>>
    /\ log_worksheet = <<>>
    /\ total_rows_added = 0
    /\ error_count = 0
    /\ summary = NoSummary
    /\ remote_files = {}
    /\ delete_log = <<>>
    /\ history = <<>>
    /\ raised = {}
    /\ document = <<>>
    /\ error_files = <<>>
    /\ arg \in CurrencyInputs
    /\ result = None

not_call_vars == <<variant, pdf_files, pdf_file, attempt, uploaded_file, response,
                   extracted, validated_data, pending, exc, rows_to_append,
                   worksheet, log_worksheet, total_rows_added, error_count,
                   summary, remote_files, delete_log, history, raised, docs_vars>>

\* clean_currency(arg)
CleanCurrency ==
    /\ pc = "clean_currency"
    /\ result' = clean_currency(arg)
    /\ pc' = "cleaned"
    /\ UNCHANGED <<arg, not_call_vars>>

\* clean_currency on what the first call returned.
CleanCurrencyAgain ==
    /\ pc = "cleaned"
    /\ arg' = result
    /\ result' = clean_currency(result)
    /\ pc' = "cleaned_again"
    /\ UNCHANGED not_call_vars

CurrencyNext == CleanCurrency \/ CleanCurrencyAgain

CurrencySpec == CurrencyInit /\ [][CurrencyNext]_vars

\* ------------------------------------------------------------------------
\* Properties of the retry loop (genai variant)
\* ------------------------------------------------------------------------
ExtractErrors == {"UploadError", "ModelError", "ValueError"}

\* extract_data_with_gemini has just returned to main.
Returned == variant = "genai" /\ pc = "validate"

\* extract_data_with_gemini has just raised out of the retry loop to main.
RaisedToDriver == variant = "genai" /\ pc = "handler" /\ exc.type \in ExtractErrors

Failed(h) == h \in {"upload_exc", "call_exc", "parse_fail"}

\* The call ended after a third attempt that followed two failed ones.
EndedAfterTwoFailures ==
    /\ Returned \/ RaisedToDriver
    /\ Len(history) = max_retries
    /\ Failed(history[1]) /\ Failed(history[2])

\* C1 as stated: after two failed attempts, a successful third attempt returns
\* its records and a failed third attempt raises the terminal error, and in
\* both cases delete_file was called exactly three times.
C1_ReleaseExactlyThreeTimes ==
    EndedAfterTwoFailures =>
        /\ Returned <=> history[3] = "ok"
        /\ Returned => extracted = safe_extract_json(response)
        /\ Len(delete_log) = 3

\* C1 amended: after two failed attempts, a successful third attempt returns
\* its records and a failed third attempt raises the terminal error;
\* delete_file is called once in every attempt whose upload succeeded, on that
\* attempt's own handle and exactly three times when all three uploads
\* succeeded, and fewer than three times when the first upload raised.
C1_ReleaseOncePerUploadedAttempt ==
    EndedAfterTwoFailures =>
        /\ Returned <=> history[3] = "ok"
        /\ Returned => extracted = safe_extract_json(response) /\ extracted.t = "list"
        /\ RaisedToDriver <=> Failed(history[3])
        /\ Cardinality({k \in 1..3 : history[k] # "upload_exc"}) <= Len(delete_log)
        /\ Len(delete_log) <= 3
        /\ history[1] = "upload_exc" => Len(delete_log) < 3
        /\ \A k \in 1..3 :
               history[k] # "upload_exc" =>
                   \E i \in 1..Len(delete_log) : delete_log[i] = Handle(pdf_file, k - 1)
        /\ (\A k \in 1..3 : history[k] # "upload_exc") =>
               delete_log = [k \in 1..3 |-> Handle(pdf_file, k - 1)]

\* Two failures by call exception and parse failure, success on the third
\* attempt, three delete calls.
C1_Witness ==
    /\ Returned
    /\ history = <<"call_exc", "parse_fail", "ok">>
    /\ Len(delete_log) = 3

\* C2 as stated: when an attempt starts its upload and when the extractor
\* returns or raises to main, no handle uploaded earlier for the document is
\* still on the remote side.
C2_NoUnreleasedHandle ==
    (variant = "genai" /\ pc \in {"upload", "validate", "handler"}) =>
        remote_files = {}

\* C3: at most max_retries attempts are started, none after a successful one,
\* and the extractor ends by returning a list or by raising, never by leaving
\* the loop without a result.
C3_BoundedAttemptsAndResult ==
    variant = "genai" =>
        /\ Len(history) <= max_retries
        /\ pc \in {"upload", "request", "parse", "except", "finally"} =>
               attempt \in 0..(max_retries - 1)
        /\ \A k \in 1..(Len(history) - 1) : history[k] # "ok"
        /\ (history # <<>> /\ history[Len(history)] = "ok") =>
               pc \notin {"upload", "request", "parse", "except"}
        /\ pc = "validate" => extracted.t = "list"

\* The first attempt succeeded and the extractor returned at once.
C3_Witness ==
    /\ Returned
    /\ attempt = 0
    /\ history = <<"ok">>
    /\ extracted.t = "list"

\* C4, state part: an error of the retry loop reaches main only from attempt
\* max_retries; a parse failure there is a ValueError carrying that attempt's
\* response text, an upload or model-call exception is the exception itself;
\* every attempt after the first follows failed attempts only.
C4_Surfaced ==
    variant = "genai" =>
        /\ RaisedToDriver =>
              /\ Len(history) = max_retries
              /\ attempt = max_retries - 1
              /\ history[max_retries] = "parse_fail" =>
                     /\ exc = Exc("ValueError", response)
                     /\ safe_extract_json(response) = None
              /\ history[max_retries] = "call_exc" => exc = Exc("ModelError", <<>>)
              /\ history[max_retries] = "upload_exc" => exc = Exc("UploadError", <<>>)
              /\ Failed(history[max_retries])
        /\ pc = "upload" =>
              /\ Len(history) = attempt
              /\ \A k \in 1..Len(history) : Failed(history[k])

\* C4, step part: a failed attempt before the last one is followed by the
\* next attempt.
C4_NextAttempt ==
    (/\ variant = "genai"
     /\ pc = "finally"
     /\ attempt < max_retries - 1
     /\ Failed(history[Len(history)]))
        => (pc' = "upload" /\ attempt' = attempt + 1)

\* C4: a parse failure or an exception at attempt k < max_retries is not
\* surfaced and attempt k+1 follows; at k = max_retries a parse failure
\* surfaces a ValueError with the raw response text of that attempt and an
\* exception is re-raised.
C4_RetryThenSurface == [](C4_Surfaced) /\ [][C4_NextAttempt]_vars

\* Three parse failures: the ValueError with the last response reaches main.
C4_Witness ==
    /\ RaisedToDriver
    /\ history = <<"call_exc", "parse_fail", "parse_fail">>
    /\ exc = Exc("ValueError", response)
    /\ response # <<>>

\* ------------------------------------------------------------------------
\* Properties of the batch drivers
\* ------------------------------------------------------------------------
\* Number of failure records for document d in a sheet.
ErrCount(sheet, d) ==
    Cardinality({i \in 1..Len(sheet) :
                    sheet[i].kind = "ErrorRecord" /\ sheet[i].file = d})

\* Number of "no valid data" notes for document d in a sheet.
NoteCount(sheet, d) ==
    Cardinality({i \in 1..Len(sheet) :
                    sheet[i].kind = "NoData" /\ sheet[i].file = d})

\* Positions of the OutputRows of a sheet.
OutputRowsIn(sheet) == {i \in 1..Len(sheet) : sheet[i].kind = "OutputRow"}

\* Documents that have OutputRows in a sheet (the first row names the file).
DocsWithRows(sheet) ==
    {sheet[i].file : i \in {k \in OutputRowsIn(sheet) : sheet[k].file # 0}}

\* C5 as stated: whatever happens to a document, the driver goes on with the
\* later documents and reaches the summary; the run is never ended by an
\* exception that leaves the for loop.
C5_BatchNeverAborts == pc # "aborted"

\* C6 as stated: at the end of a genai run every document whose pipeline
\* raised has exactly one ErrorRecord in the error log.
C6_ExactlyOneErrorRecord ==
    (variant = "genai" /\ pc \in {"done", "aborted"}) =>
        \A d \in raised : ErrCount(log_worksheet, d) = 1

\* C6 amended: a document never has two ErrorRecords; it has one exactly when
\* its pipeline raised and the error log accepted the write; it has none
\* although its pipeline raised only when the error log rejected the write,
\* which ends the run at that document.
C6_OneErrorRecordWhenAccepted ==
    variant = "genai" =>
        \A d \in 1..pdf_files :
            /\ ErrCount(log_worksheet, d) <= 1
            /\ ErrCount(log_worksheet, d) = 1 => d \in raised
            /\ (d \in raised /\ ErrCount(log_worksheet, d) = 0) =>
                   (pc = "aborted" /\ d = pdf_file)

\* A finished run in which two documents failed, one in the retry loop and
\* one at the worksheet write, each with one ErrorRecord.
C6_Witness ==
    /\ variant = "genai"
    /\ pc = "done"
    /\ raised = {1, 3}
    /\ \A d \in raised : ErrCount(log_worksheet, d) = 1
    /\ \E i \in 1..Len(log_worksheet) :
          log_worksheet[i].file = 1 /\ log_worksheet[i].error.type = "ValueError"
    /\ \E i \in 1..Len(log_worksheet) :
          log_worksheet[i].file = 3 /\ log_worksheet[i].error.type = "SinkError"

\* C7 as stated: in every spreadsheet variant the worksheet that receives the
\* OutputRows holds nothing but its header and OutputRows.
C7_ErrorsOnlyInErrorTrail ==
    \A i \in 1..Len(worksheet) : worksheet[i].kind \in {"Header", "OutputRow"}

\* C8 as stated: in the summary of a genai run the failure count is the
\* number of ErrorRecords in the error log, the success count is the number
\* of documents with OutputRows in the worksheet, and the row total is the
\* number of OutputRows in the worksheet.
C8_SummaryMatchesSinks ==
    (variant = "genai" /\ pc = "done") =>
        /\ summary.errors =
               Cardinality({i \in 1..Len(log_worksheet) :
                               log_worksheet[i].kind = "ErrorRecord"})
        /\ summary.success = Cardinality(DocsWithRows(worksheet))
        /\ summary.rows = Cardinality(OutputRowsIn(worksheet))

\* C8 amended: as C8, but the success count is the number of documents that
\* did not fail: those with OutputRows in the worksheet plus those for which
\* only a "no valid data" note was written.
C8_SummaryCountsNotFailed ==
    (variant = "genai" /\ pc = "done") =>
        /\ summary.printed
        /\ summary.files = pdf_files
        /\ summary.errors =
               Cardinality({i \in 1..Len(log_worksheet) :
                               log_worksheet[i].kind = "ErrorRecord"})
        /\ summary.success =
               Cardinality(DocsWithRows(worksheet))
                 + Cardinality({i \in 1..Len(log_worksheet) :
                                   log_worksheet[i].kind = "NoData"})
        /\ summary.success + summary.errors = summary.files
        /\ summary.rows = Cardinality(OutputRowsIn(worksheet))

\* Three documents, the second failed all retries: rows for documents 1 and
\* 3, one ErrorRecord for document 2, 2 successes and 1 failure reported.
C8_Witness ==
    /\ variant = "genai"
    /\ pc = "done"
    /\ pdf_files = 3
    /\ DocsWithRows(worksheet) = {1, 3}
    /\ raised = {2}
    /\ ErrCount(log_worksheet, 2) = 1
    /\ \E i \in 1..Len(log_worksheet) :
          log_worksheet[i].file = 2 /\ log_worksheet[i].error.type \in ExtractErrors
    /\ summary.success = 2
    /\ summary.errors = 1
    /\ summary.rows > 2

\* The genai driver is done with a document whose extraction succeeded and
\* left no valid record.
ZeroValidDone ==
    /\ variant = "genai"
    /\ pc = "loop"
    /\ history # <<>>
    /\ history[Len(history)] = "ok"
    /\ validate_and_fix_data(extracted) = <<>>

\* Rows of a sheet that name document d.
RowsNaming(sheet, d) == {i \in 1..Len(sheet) : sheet[i].file = d}

\* C9 as stated: a document with zero valid records gets no OutputRow and no
\* record in the error log, and is not counted as a failure.
C9_ZeroRecordsLeaveNoTrace ==
    ZeroValidDone =>
        /\ RowsNaming(worksheet, pdf_file) = {}
        /\ RowsNaming(log_worksheet, pdf_file) = {}
        /\ pdf_file \notin raised
        /\ error_count = Cardinality(raised)

\* C9 amended, state part: a document with zero valid records gets no
\* OutputRow; it gets one "no valid data" note in the error log and is not
\* counted as a failure, unless the error log rejected that note, in which
\* case the rejection is handled as the document's failure.
C9_ZeroRecordsState ==
    /\ (variant = "genai" /\ pc = "log_empty") =>
           /\ validate_and_fix_data(extracted) = <<>>
           /\ rows_to_append = <<>>
    /\ ZeroValidDone =>
           /\ RowsNaming(worksheet, pdf_file) = {}
           /\ error_count = Cardinality(raised)
           /\ \/ /\ pdf_file \notin raised
                 /\ NoteCount(log_worksheet, pdf_file) = 1
                 /\ ErrCount(log_worksheet, pdf_file) = 0
              \/ /\ pdf_file \in raised
                 /\ NoteCount(log_worksheet, pdf_file) = 0
                 /\ ErrCount(log_worksheet, pdf_file) = 1
                 /\ exc.type = "SinkError"

\* C9 amended, step part: an extraction without valid records always leads to
\* the note; writing the note touches neither the worksheet nor the counters
\* and the driver continues with the next document when it is accepted.
C9_ZeroRecordsStep ==
    /\ (variant = "genai" /\ pc = "validate"
            /\ validate_and_fix_data(extracted) = <<>>) => pc' = "log_empty"
    /\ (variant = "genai" /\ pc = "log_empty") =>
           /\ worksheet' = worksheet
           /\ total_rows_added' = total_rows_added
           /\ error_count' = error_count
           /\ \/ pc' = "loop" /\ log_worksheet' = Append(log_worksheet, NoDataRecord(pdf_file))
              \/ pc' = "handler" /\ log_worksheet' = log_worksheet

\* C9 amended: zero valid records are not an error: no OutputRow, one "no
\* valid data" note in the error log, no failure counted, next document; only
\* when the error log rejects the note is the document handled as failed.
C9_ZeroRecordsNoted == [](C9_ZeroRecordsState) /\ [][C9_ZeroRecordsStep]_vars

\* The response was an array without any record; the note was written and
\* the driver is back at the loop with nothing counted.
C9_Witness ==
    /\ ZeroValidDone
    /\ extracted.t = "list"
    /\ NoteCount(log_worksheet, pdf_file) = 1
    /\ pdf_file \notin raised
    /\ error_count = 0

\* C10 as stated: when worksheet.append_rows was rejected, the driver writes
\* nothing more to the worksheet, and whether or not the ErrorRecord write is
\* accepted the document is counted as failed and the next document follows.
C10_RejectedWriteStillCounted ==
    [][(/\ variant = "genai"
        /\ pc = "handler"
        /\ exc.type = "SinkError"
        /\ rows_to_append # <<>>)
          => (/\ worksheet' = worksheet
              /\ error_count' = error_count + 1
              /\ pc' = "loop")]_vars


\* ------------------------------------------------------------------------
\* Properties of the rows of one document
\* ------------------------------------------------------------------------
\* The fields the prompt lists as occurring once per document (step 1).
SingletonFields == {"name", "tax"}

\* The column of a schema field: after the file name and, in the genai
\* variant, the row number.
FieldOffset == IF variant = "genai" THEN 2 ELSE 1
FieldIndex(field) ==
    CHOOSE k \in 1..Len(EXTRACTION_FIELDS) : EXTRACTION_FIELDS[k] = field
FieldCell(row, field) == row.cells[FieldOffset + FieldIndex(field)]

\* The records of the response the rows of the current document stand for.
RowRecords ==
    IF variant = "ocr" THEN <<extracted>>
    ELSE IF extracted.t # "list" THEN <<>>
    ELSE SelectSeq(extracted.items, LAMBDA item : item.t = "dict")

\* The rows of the current document have been built.
RowsBuilt == rows_to_append # <<>>

\* C11: the rows of a document are as many as its row-level records, and
\* every row carries, for each singleton field the document gives a value,
\* that document-wide value (the value of the first record that has it),
\* also where the row's own record lacks the field or gives another value.
C11_SingletonsOnEveryRow ==
    (variant \in {"genai", "vertex"} /\ RowsBuilt) =>
        /\ Len(rows_to_append) = Len(RowRecords)
        /\ \A field \in SingletonFields :
             LET S == {i \in 1..Len(RowRecords) : HasKey(RowRecords[i], field)} IN
             S # {} =>
                \A i \in 1..Len(rows_to_append) :
                    FieldCell(rows_to_append[i], field)
                        = FieldCell(rows_to_append[CHOOSE k \in S : \A l \in S : k <= l],
                                    field)


\* C12: every row appended to the tabular sink has the fixed width of its
\* variant: the file name, in the genai variant the row number, and one cell
\* per schema field.
C12_FixedWidthRows ==
    \A i \in 1..Len(worksheet) :
        Len(worksheet[i].cells) = Len(EXTRACTION_FIELDS) + FieldOffset

\* C12 apart from the failure rows of the vertex variant (C7): the header and
\* every OutputRow have the fixed width.
C12_FixedWidthOutputRows ==
    \A i \in 1..Len(worksheet) :
        worksheet[i].kind # "ErrorRecord" =>
            Len(worksheet[i].cells) = Len(EXTRACTION_FIELDS) + FieldOffset


\* The OutputRows of sheet1; under RowSpec they belong to the one document.
OutputRows == SelectSeq(worksheet, LAMBDA row : row.kind = "OutputRow")

\* C13: of the rows appended for one document (vertex and genai) the first
\* carries the file name in column 0 and every later one the empty string;
\* in the genai variant the row-number column holds 1..n in order, also when
\* validate_and_fix_data dropped elements of the list.
C13_FileNameOnFirstRowOnly ==
    variant \in {"genai", "vertex"} =>
        \A i \in 1..Len(OutputRows) :
            /\ OutputRows[i].cells[1] = (IF i = 1 THEN FileName(pdf_file) ELSE Str(<<>>))
            /\ variant = "genai" => OutputRows[i].cells[2] = Num(Decimal(i))

\* Two rows were appended for a document of the genai variant whose list
\* held an element that is no record.
C13_Witness ==
    /\ variant = "genai"
    /\ Len(OutputRows) = 2
    /\ extracted.t = "list"
    /\ Len(extracted.items) = 3
    /\ extracted.items[2].t # "dict"


\* The characters of a value with every line break replaced by a space.
Flat(value) == replace(replace(str(value), "LF"), "CR").s

\* What C14 says the cell of field holds for a record: for a currency field
\* clean_currency of the extracted value, "0" when the field is absent; for
\* another field the extracted value, "N/A" when the field is absent.  The
\* extracted value is taken as its text, line breaks apart (C15).
CellAsClaimed(record, field, cell) ==
    IF field \in currency_fields
    THEN cell = (IF HasKey(record, field)
                 THEN clean_currency(str(Get(record, field, None)))
                 ELSE Str(<<"0">>))
    ELSE IF HasKey(record, field)
         THEN Flat(cell) = Flat(Get(record, field, None))
         ELSE cell = Str(NA)

CellsAsClaimed ==
    /\ Len(OutputRows) \in {0, Len(RowRecords)}
    /\ \A i \in 1..Len(OutputRows) :
         \A k \in 1..Len(EXTRACTION_FIELDS) :
            CellAsClaimed(RowRecords[i], EXTRACTION_FIELDS[k],
                          FieldCell(OutputRows[i], EXTRACTION_FIELDS[k]))

\* C14: in every OutputRow of the vertex, ocr and genai variants the cell of
\* each currency field is clean_currency of the extracted value ("0" when the
\* field is absent or holds a sentinel) and the cell of every other field is
\* the extracted value, "N/A" when the field is absent.
C14_CellsMatchExtractedValues == CellsAsClaimed

\* C14 for the genai and vertex variants alone.
C14_GenaiVertexCells == variant \in {"genai", "vertex"} => CellsAsClaimed


\* C15: no cell of a row appended to the tabular sink holds a line feed or a
\* carriage return.
C15_NoLineBreakInCells ==
    \A i \in 1..Len(worksheet) :
        \A k \in 1..Len(worksheet[i].cells) :
            \A c \in 1..Len(worksheet[i].cells[k].s) :
                worksheet[i].cells[k].s[c] \notin {"LF", "CR"}

\* C15 for the genai variant alone, and for the line feed alone.
C15_GenaiNoLineBreak == variant = "genai" => C15_NoLineBreakInCells
C15_NoLineFeedInCells ==
    \A i \in 1..Len(worksheet) :
        \A k \in 1..Len(worksheet[i].cells) :
            \A c \in 1..Len(worksheet[i].cells[k].s) :
                worksheet[i].cells[k].s[c] # "LF"


\* ------------------------------------------------------------------------
\* Properties of validate_and_fix_data
\* ------------------------------------------------------------------------
\* validate_and_fix_data has returned, in this step or an earlier one.
Validated == variant = "genai" /\ pc \notin {"validate", "parse", "finally", "except",
                                             "upload", "request"}

\* The elements of the input that are records, in input order.
Mappings(data_list) ==
    IF data_list.t = "list"
    THEN SelectSeq(data_list.items, LAMBDA item : item.t = "dict")
    ELSE IF data_list.t = "dict" THEN <<data_list>> ELSE <<>>

\* C16: for every input (a list, a bare object, anything else) every record
\* of the list validate_and_fix_data returns has every field of
\* EXTRACTION_FIELDS, "N/A" where the input record lacked the field and the
\* input's value where it had it.
C16_EveryFieldPresent ==
    Validated =>
        /\ Len(validated_data) = Len(Mappings(extracted))
        /\ \A i \in 1..Len(validated_data) :
             \A k \in 1..Len(EXTRACTION_FIELDS) :
                LET field == EXTRACTION_FIELDS[k]
                    item == Mappings(extracted)[i]
                IN  /\ HasKey(validated_data[i], field)
                    /\ Get(validated_data[i], field, None)
                          = Get(item, field, Str(NA))

\* C16 for the inputs that are lists.
C16_EveryFieldPresentInLists ==
    extracted.t = "list" => C16_EveryFieldPresent


\* s is the beginning of t.
IsPrefix(s, t) == Len(s) <= Len(t) /\ SubSeq(t, 1, Len(s)) = s

\* C17: validate_and_fix_data never raises; for a list it returns the
\* elements that are key-value mappings, in input order, the others dropped
\* (each returned record is the input record, its members first); for a bare
\* object a one-element list holding it; for anything else the empty list.
C17_MappingsInOrder ==
    Validated =>
        /\ pc \in {"log_empty", "append_rows"} => exc = NoExc
        /\ Len(validated_data) = Len(Mappings(extracted))
        /\ \A i \in 1..Len(validated_data) :
              /\ validated_data[i].t = "dict"
              /\ IsPrefix(Mappings(extracted)[i].items, validated_data[i].items)
        /\ extracted.t = "dict" => validated_data = <<extracted>>
        /\ extracted.t \notin {"list", "dict"} => validated_data = <<>>

\* C17: a list of three elements whose second is no mapping has been
\* validated and the two mappings around it are returned.
C17_Witness ==
    /\ Validated
    /\ extracted.t = "list"
    /\ Len(extracted.items) = 3
    /\ extracted.items[2].t # "dict"
    /\ extracted.items[1].t = "dict"
    /\ extracted.items[3].t = "dict"
    /\ extracted.items[1] # extracted.items[3]
    /\ Len(validated_data) = 2

\* C17 support: a bare object and a value that is neither a list nor an
\* object have been validated.
C17_BareObjectValidated ==
    Validated /\ extracted.t = "dict" /\ extracted.items # <<>>

C17_OtherValidated ==
    Validated /\ extracted.t \notin {"list", "dict"}


\* ------------------------------------------------------------------------
\* Properties of the response parsers
\* ------------------------------------------------------------------------
\* The parsing step of the genai or the vertex variant has run.
Parsed == pc \notin {"parse", "vertex_parse", "ocr_parse"}

\* The parsing step has returned a value to its caller.
ParserReturned ==
    \/ variant = "genai" /\ pc = "finally" /\ pending = "return"
    \/ variant = "vertex" /\ pc = "vertex_build"

\* The span of the response from the first "[" to the last "]".
ArraySpan == SearchGreedy(response, "[", "]")

SpanIsArray ==
    LET r == json_loads(ArraySpan) IN r.ok /\ r.v.t = "list"

ReturnsSpan == ParserReturned /\ extracted = json_loads(ArraySpan).v

\* C18: when the span from the first "[" to the last "]" of the response is
\* a well-formed JSON array, the parser of the genai variant and the one of
\* the vertex variant return exactly that array, whatever surrounds the span
\* and whatever arrays its records hold.
C18_ReturnsArraySpan ==
    (Parsed /\ SpanIsArray) => ReturnsSpan

\* C18 for the vertex variant alone.
C18_VertexReturnsArraySpan ==
    variant = "vertex" => C18_ReturnsArraySpan

\* C18 for the genai variant when the span holds no other bracket.
C18_GenaiReturnsFlatArraySpan ==
    (/\ variant = "genai"
     /\ \A i \in 2..(Len(ArraySpan) - 1) : ArraySpan[i] \notin {"[", "]"})
        => C18_ReturnsArraySpan


\* The response is one fenced code block and nothing else.
FencedOnly ==
    /\ Len(response) >= 2
    /\ response[1] = "F"
    /\ response[Len(response)] = "F"
    /\ \A i \in 2..(Len(response) - 1) : response[i] # "F"

\* The interior of the block, after the word json when the fence has it.
Interior ==
    SubSeq(response, IF response[2] = "j" THEN 3 ELSE 2, Len(response) - 1)

InteriorIsJson ==
    LET r == json_loads(Interior) IN r.ok /\ r.v.t \in {"dict", "list"}

\* The list safe_extract_json is to make of the interior: [O] or A.
InteriorAsList ==
    LET v == json_loads(Interior).v IN
    IF v.t = "dict" THEN [t |-> "list", items |-> <<v>>] ELSE v

\* C19: for a response that is only one fenced code block whose interior is
\* a well-formed JSON object O or array A, safe_extract_json returns [O] or
\* A, the value of parsing the interior directly.
C19_FencedInteriorRecovered ==
    (variant = "genai" /\ Parsed /\ FencedOnly /\ InteriorIsJson) =>
        /\ pc = "finally" /\ pending = "return"
        /\ extracted = InteriorAsList

\* C19 for the interiors that hold no bracket except an array's own two.
C19_FlatInteriorRecovered ==
    (/\ FencedOnly
     /\ \A i \in 2..(Len(Interior) - 1) : Interior[i] \notin {"[", "]"})
        => C19_FencedInteriorRecovered


\* The positions of the matches of the four patterns that parse to a JSON
\* object or a JSON array.
Recoverable ==
    {i \in 1..Len(patterns(response)) :
        LET r == json_loads(patterns(response)[i])
        IN  r.ok /\ r.v.t \in {"dict", "list"}}

\* The list a recovered value is returned as.
AsList(v) == IF v.t = "dict" THEN [t |-> "list", items |-> <<v>>] ELSE v

\* C20: the result of safe_extract_json is the failure value or a list: a
\* recovered object wrapped in a one-element list or a recovered list as it
\* is, never a value of another JSON type; when no match of any pattern is a
\* JSON object or array the result is the failure value.
C20_NoneOrList ==
    (variant = "genai" /\ Parsed) =>
        IF Recoverable = {}
        THEN ~ParserReturned /\ extracted = None
        ELSE /\ ParserReturned
             /\ extracted.t = "list"
             /\ \E i \in Recoverable :
                   extracted = AsList(json_loads(patterns(response)[i]).v)

\* C20: the first match of the response did not parse to an object or an
\* array, a later one was an object, and it was returned wrapped in a
\* one-element list.
C20_Witness ==
    /\ variant = "genai" /\ Parsed /\ ParserReturned
    /\ Recoverable # {}
    /\ 1 \notin Recoverable
    /\ Len(extracted.items) = 1
    /\ extracted.items[1].t = "dict"

\* C20 support: a response whose only parsing match is a number has given
\* the failure value.
C20_NumberNotReturned ==
    /\ variant = "genai" /\ Parsed /\ ~ParserReturned
    /\ Recoverable = {}
    /\ \E i \in 1..Len(patterns(response)) : json_loads(patterns(response)[i]).ok


\* ------------------------------------------------------------------------
\* Properties of clean_currency
\* ------------------------------------------------------------------------
\* The digit characters of a string, in their order.
RECURSIVE DigitsOf(_)
DigitsOf(chars) ==
    IF chars = <<>> THEN <<>>
    ELSE (IF Head(chars) \in Digits THEN <<Head(chars)>> ELSE <<>>)
             \o DigitsOf(Tail(chars))

Zero == Str(<<"0">>)

\* C21: clean_currency returns "0" for a value that is no string, for a
\* string that trimmed is "", "없음" or "N/A" and for a string without a
\* digit; for every other string it returns the string's digits in their
\* order, leading zeros kept; the result is a non-empty string of digits.
C21_DigitsOrZero ==
    pc = "cleaned" =>
        /\ result.t = "str"
        /\ result.s # <<>>
        /\ \A i \in 1..Len(result.s) : result.s[i] \in Digits
        /\ arg.t # "str" => result = Zero
        /\ arg.t = "str" =>
              /\ strip(arg.s) \in {<<>>, <<"eops", "eum">>, <<"N", "/", "A">>}
                    => result = Zero
              /\ DigitsOf(arg.s) = <<>> => result = Zero
              /\ DigitsOf(arg.s) # <<>> => result.s = DigitsOf(arg.s)

\* C21: a string with a leading zero, a separator and another digit has
\* been cleaned.
C21_Witness ==
    /\ pc = "cleaned"
    /\ arg = Str(<<"0", ",", "1">>)
    /\ result = Str(<<"0", "1">>)

\* C21 support: the other cases of the claim have been reached.
C21_NonStringCleaned == pc = "cleaned" /\ arg.t = "num" /\ result = Zero

C21_SentinelCleaned ==
    pc = "cleaned" /\ arg = Str(<<" ", "N", "/", "A", "LF", " ">>) /\ result = Zero

C21_NoDigitCleaned == pc = "cleaned" /\ arg = Str(<<"x", ",">>) /\ result = Zero

\* C22: clean_currency returns for every string, and applied to its own
\* result it returns that result.
C22_TotalAndIdempotent ==
    /\ pc = "cleaned" => result.t = "str"
    /\ pc = "cleaned_again" => result.t = "str" /\ result = arg

\* C22: the result "10" of a first call has been cleaned again.
C22_Witness ==
    /\ pc = "cleaned_again"
    /\ arg = Str(<<"1", "0">>)
    /\ result = Str(<<"1", "0">>)


\* ------------------------------------------------------------------------
\* Properties of the docs variant
\* ------------------------------------------------------------------------
\* C23: the sections of the target document are in processing order, the
\* content the document held before the run first: append_text_to_doc adds
\* each section at the end.
C23_SectionsInProcessingOrder ==
    \A i, j \in 1..Len(document) :
        i < j => document[i].file < document[j].file

\* C23 support: every document whose text was written has exactly one
\* section, and a run does not change the content that was there before.
C23_OneSectionPerWrittenDocument ==
    /\ \A i, j \in 1..Len(document) :
          document[i].file = document[j].file => i = j
    /\ \A i \in 1..Len(document) :
          document[i].file = 0 => i = Len(document)


\* ------------------------------------------------------------------------
\* Properties of the two streams
\* ------------------------------------------------------------------------
\* Document d has a record, or a "no valid data" note, in the error trail.
InErrorTrail(d) ==
    \E i \in 1..Len(log_worksheet) :
        /\ log_worksheet[i].kind \in {"ErrorRecord", "NoData"}
        /\ log_worksheet[i].file = d

\* C24: in the genai and ocr variants no document has OutputRows in sheet1
\* and a record in the error trail, during a run and at its end.
C24_NeverOnBothStreams ==
    variant \in {"genai", "ocr"} =>
        \A d \in 1..pdf_files :
            ~(d \in DocsWithRows(worksheet) /\ InErrorTrail(d))

\* C24: a run has ended with one document in sheet1, with more than one
\* row, and a later document, whose write was rejected, in the error trail.
C24_Witness ==
    /\ variant = "genai"
    /\ pc = "done"
    /\ 1 \in DocsWithRows(worksheet)
    /\ Cardinality(OutputRowsIn(worksheet)) >= 2
    /\ \E i \in 1..Len(log_worksheet) :
          /\ log_worksheet[i].kind = "ErrorRecord"
          /\ log_worksheet[i].file = 2
          /\ log_worksheet[i].error.type = "SinkError"

\* C24 support: the same for the ocr variant.
C24_OcrWitness ==
    /\ variant = "ocr"
    /\ pc = "done"
    /\ DocsWithRows(worksheet) # {}
    /\ \E d \in 1..pdf_files : InErrorTrail(d)


\* ------------------------------------------------------------------------
\* Properties of the release of uploaded files
\* ------------------------------------------------------------------------
\* The extractor of the current document has been left, by return or raise.
ExtractorLeft ==
    /\ pdf_file > 0
    /\ pc \in {"validate", "log_empty", "append_rows", "ocr_append", "docs_append",
               "handler", "loop", "summary", "done", "aborted"}

\* The handles the uploads of the current document returned: one per
\* attempt whose upload succeeded.
Uploaded ==
    IF variant = "genai"
    THEN {Handle(pdf_file, a - 1) : a \in {i \in 1..Len(history) : history[i] # "upload_exc"}}
    ELSE IF uploaded_file # 0 THEN {uploaded_file} ELSE {}

\* C25: in the variants that upload, genai.delete_file is called exactly
\* once with each handle a successful upload returned, and an attempt whose
\* upload failed calls it with no handle, in particular not a second time
\* with the handle of an earlier attempt.
C25_ReleaseOncePerHandle ==
    variant \in {"genai", "ocr", "docs"} =>
        /\ \A i, j \in 1..Len(delete_log) :
              delete_log[i] = delete_log[j] => i = j
        /\ ExtractorLeft /\ exc.type # "FileNotFoundError" =>
              {delete_log[i] : i \in 1..Len(delete_log)} = Uploaded

\* C25 for the ocr and docs variants, which make one attempt.
C25_SingleAttemptReleaseOncePerHandle ==
    variant \in {"ocr", "docs"} => C25_ReleaseOncePerHandle


\* C26: a failure of genai.delete_file is never the error of a document:
\* the batch driver's except block is never entered with it, so an attempt
\* whose upload, model call and parse succeeded returns its result.
C26_ReleaseFailureNeverSurfaces ==
    variant \in {"genai", "ocr", "docs"} =>
        /\ pc = "handler" => exc.type # "DeleteError"
        /\ \A i \in 1..Len(log_worksheet) :
              log_worksheet[i].kind = "ErrorRecord"
                  => log_worksheet[i].error.type # "DeleteError"

\* C26 for the genai variant alone, whose finally block guards the call.
C26_GenaiReleaseFailureNeverSurfaces ==
    variant = "genai" => C26_ReleaseFailureNeverSurfaces

\* C26 support: in the genai variant a document whose release failed on the
\* returning attempt has its rows in sheet1.
C26_GenaiRowsDespiteReleaseFailure ==
    /\ variant = "genai"
    /\ pc = "loop"
    /\ pdf_file = 1
    /\ history = <<"ok">>
    /\ remote_files # {}
    /\ 1 \in DocsWithRows(worksheet)

=============================================================================
